---- MODULE Spec2Model ----
(***************************************************************************)
(* Model of modules/@angular/common/src/pipes/number_pipe.ts:              *)
(* formatNumber and the three pipes DecimalPipe, PercentPipe and           *)
(* CurrencyPipe that share it.                                             *)
(*                                                                         *)
(* A JavaScript value is a tagged record; a string is a sequence of        *)
(* one-character strings, so that the regular expression, the numeric      *)
(* coercion and the integer parsing are computed on the text itself.       *)
(* One behaviour of the model is one call: Init draws the value and the    *)
(* digit info the template hands to the pipe, and one of the three         *)
(* transform actions runs the call to its end.                             *)
(***************************************************************************)
EXTENDS Integers, Sequences, FiniteSets

\* ------------------------------------------------------------------ bounds

\* Longest digit-info string drawn for a call.
MaxDigitsLen == 5

\* ------------------------------------------------------------ JS values

Null == [t |-> "null"]
Undefined == [t |-> "undefined"]
Num(n) == [t |-> "number", n |-> n]
Str(s) == [t |-> "string", s |-> s]
Bool(b) == [t |-> "boolean", b |-> b]
Obj == [t |-> "object"]

\* The characters digit-info strings are drawn from: two digits (one of them
\* the zero that can lead a field), the two literals of the format, and one
\* character that is neither.
DigitsChars == {"0", "1", ".", "-", "a"}

DigitsStrings == UNION {[1..n -> DigitsChars] : n \in 0..MaxDigitsLen}

\* The digits argument of a call: omitted (the parameter's default, null) or a
\* string.
DigitsArgs == {Null} \cup {Str(s) : s \in DigitsStrings}

\* The value argument of a call: absent, a number, a string (numeric-looking
\* or not, the empty string included), or something else altogether.
ValueStrings ==
  {<<>>, <<"4">>, <<"-", "4">>, <<"4", "2">>, <<"a">>, <<"4", "a">>}

ValueArgs ==
  {Null, Undefined, Num(0), Num(42), Bool(TRUE), Obj}
    \cup {Str(s) : s \in ValueStrings}

\* The optional arguments of CurrencyPipe.transform: Undefined is an omitted
\* argument.
CurrencyCodeArgs == {Undefined, Str(<<"E", "U", "R">>)}
SymbolDisplayArgs == {Undefined, Bool(TRUE)}

\* The locale injected into the pipes.
Locales == {"en-US"}

\* ------------------------------------------------------- facade/lang.ts

isPresent(obj) == obj # Undefined /\ obj # Null
isBlank(obj) == obj = Undefined \/ obj = Null
isString(obj) == obj.t = "string"
isNumber(obj) == obj.t = "number"

isDigit(c) == c \in {"0", "1", "2", "3", "4", "5", "6", "7", "8", "9"}

DigitVal(c) ==
  CASE c = "0" -> 0 [] c = "1" -> 1 [] c = "2" -> 2 [] c = "3" -> 3
    [] c = "4" -> 4 [] c = "5" -> 5 [] c = "6" -> 6 [] c = "7" -> 7
    [] c = "8" -> 8 [] c = "9" -> 9

\* The number of characters of s, from position i on, that are digits below
\* the radix: the prefix parseInt reads.
RECURSIVE RadixRun(_, _, _)
RadixRun(s, i, radix) ==
  IF i > Len(s) \/ ~isDigit(s[i]) THEN 0
  ELSE IF DigitVal(s[i]) >= radix THEN 0
  ELSE 1 + RadixRun(s, i + 1, radix)

\* The value of the digits s[i..j] in the radix.
RECURSIVE RadixValue(_, _, _, _)
RadixValue(s, i, j, radix) ==
  IF j < i THEN 0
  ELSE RadixValue(s, i, j - 1, radix) * radix + DigitVal(s[j])

\* NumberWrapper.isNumeric on a string: the whole string is a numeric literal,
\* here an optional sign and one or more digits.
isNumeric(v) ==
  LET s == v.s
      from == IF Len(s) > 0 /\ s[1] \in {"-", "+"} THEN 2 ELSE 1
  IN  /\ from <= Len(s)
      /\ RadixRun(s, from, 10) = Len(s) - from + 1

\* Unary plus on a numeric string.
ToNumber(v) ==
  LET s == v.s
      from == IF s[1] \in {"-", "+"} THEN 2 ELSE 1
      abs == RadixValue(s, from, Len(s), 10)
  IN  Num(IF s[1] = "-" THEN 0 - abs ELSE abs)

\* NumberWrapper.parseIntAutoRadix: the radix is read off the text, a leading
\* zero announcing octal, and the integer is the value of the digits the
\* radix allows.
parseIntAutoRadix(text) ==
  IF Len(text) > 1 /\ text[1] = "0"
  THEN RadixValue(text, 2, 1 + RadixRun(text, 2, 8), 8)
  ELSE RadixValue(text, 1, RadixRun(text, 1, 10), 10)

\* ------------------------------------------------------- facade/intl.ts

Decimal == "Decimal"
Percent == "Percent"
Currency == "Currency"

\* ------------------------------------------------------- number_pipe.ts

\* The length of the run of digits of s that starts at position i: what a
\* greedy \d+ takes there.
RECURSIVE DigitRun(_, _)
DigitRun(s, i) ==
  IF i > Len(s) \/ ~isDigit(s[i]) THEN 0 ELSE 1 + DigitRun(s, i + 1)

Slice(s, i, n) == IF n = 0 THEN <<>> ELSE SubSeq(s, i, i + n - 1)

\* A capture group that took part in the match, and one that did not.
Group(s, i, n) == IF n = 0 THEN Undefined ELSE Str(Slice(s, i, n))

\* The tail written ((\d+)(\-(\d+))?)$, the fraction part no longer optional.
FractionGroups_required(s, from) ==
  LET n3 == DigitRun(s, from)
      dash == from + n3
      n5 == DigitRun(s, dash + 1)
  IN  IF from > Len(s) THEN Null
      ELSE IF n3 = 0 THEN Null
      ELSE IF dash > Len(s)
      THEN [g2 |-> Group(s, from, n3), g3 |-> Group(s, from, n3),
            g4 |-> Undefined, g5 |-> Undefined]
      ELSE IF s[dash] = "-" /\ n5 > 0 /\ dash + n5 = Len(s)
      THEN [g2 |-> Group(s, from, n3 + 1 + n5), g3 |-> Group(s, from, n3),
            g4 |-> Group(s, dash, 1 + n5), g5 |-> Group(s, dash + 1, n5)]
      ELSE Null

\* The tail written ((\d+)(\-(\d+))?)?, the closing $ forgotten: what follows
\* the match is ignored.
FractionGroups_unanchored(s, from) ==
  LET n3 == DigitRun(s, from)
      dash == from + n3
      n5 == DigitRun(s, dash + 1)
  IN  IF n3 = 0
      THEN [g2 |-> Undefined, g3 |-> Undefined, g4 |-> Undefined,
            g5 |-> Undefined]
      ELSE IF dash <= Len(s) /\ s[dash] = "-" /\ n5 > 0
      THEN [g2 |-> Group(s, from, n3 + 1 + n5), g3 |-> Group(s, from, n3),
            g4 |-> Group(s, dash, 1 + n5), g5 |-> Group(s, dash + 1, n5)]
      ELSE [g2 |-> Group(s, from, n3), g3 |-> Group(s, from, n3),
            g4 |-> Undefined, g5 |-> Undefined]

\* The tail written ((\d+)?(\-(\d+))?)?$, the minimum optional before the
\* maximum.
FractionGroups_minOptional(s, from) ==
  LET n3 == DigitRun(s, from)
      dash == from + n3
      n5 == DigitRun(s, dash + 1)
  IN  IF from > Len(s)
      THEN [g2 |-> Undefined, g3 |-> Undefined, g4 |-> Undefined,
            g5 |-> Undefined]
      ELSE IF dash > Len(s)
      THEN [g2 |-> Group(s, from, n3), g3 |-> Group(s, from, n3),
            g4 |-> Undefined, g5 |-> Undefined]
      ELSE IF s[dash] = "-" /\ n5 > 0 /\ dash + n5 = Len(s)
      THEN [g2 |-> Group(s, from, n3 + 1 + n5), g3 |-> Group(s, from, n3),
            g4 |-> Group(s, dash, 1 + n5), g5 |-> Group(s, dash + 1, n5)]
      ELSE Null

\* The tail ((\d+)(\-(\d+))?)?$ of the expression, tried at position from:
\* Null when it does not match, else the groups 2 to 5.
FractionGroups(s, from) ==
  LET n3 == DigitRun(s, from)
      dash == from + n3
      n5 == DigitRun(s, dash + 1)
  IN  IF from > Len(s)
      THEN [g2 |-> Undefined, g3 |-> Undefined, g4 |-> Undefined,
            g5 |-> Undefined]
      ELSE IF n3 = 0 THEN Null
      ELSE IF dash > Len(s)
      THEN [g2 |-> Group(s, from, n3), g3 |-> Group(s, from, n3),
            g4 |-> Undefined, g5 |-> Undefined]
      ELSE IF s[dash] = "-" /\ n5 > 0 /\ dash + n5 = Len(s)
      THEN [g2 |-> Group(s, from, n3 + 1 + n5), g3 |-> Group(s, from, n3),
            g4 |-> Group(s, dash, 1 + n5), g5 |-> Group(s, dash + 1, n5)]
      ELSE Null

\* digits.match(/^(\d+)?\.((\d+)(\-(\d+))?)?$/): Null, or the array of the
\* whole match and the five capture groups.
NUMBER_FORMAT_REGEXP_match(s) ==
  LET n1 == DigitRun(s, 1)
      dot == n1 + 1
      frac == FractionGroups(s, dot + 1)
  IN  IF dot > Len(s) \/ s[dot] # "." THEN Null
      ELSE IF frac = Null THEN Null
      ELSE [k \in 0..5 |->
              CASE k = 0 -> Str(s)
                [] k = 1 -> Group(s, 1, n1)
                [] k = 2 -> frac.g2
                [] k = 3 -> frac.g3
                [] k = 4 -> frac.g4
                [] OTHER -> frac.g5]

\* What a call leaves behind: how it ended, and the calls it made to
\* NumberFormatter.format.
Return(v, calls) == [kind |-> "return", v |-> v, calls |-> calls]
Throw(e, calls) == [kind |-> "throw", e |-> e, calls |-> calls]

InvalidPipeArgumentError(type, value) ==
  [name |-> "InvalidPipeArgumentError", type |-> type, value |-> value]

\* new Error(`${digits} is not a valid digit info for number pipes`)
DigitInfoError(digits) ==
  [name |-> "Error",
   message |-> digits.s \o <<" is not a valid digit info for number pipes">>]

\* The string NumberFormatter.format returns: the collaborator is outside
\* the program, its result is the application itself.
Formatted(call) == [t |-> "string", formatted |-> call]

\* Line 21 written value === null: undefined slips through.
shortCircuits_nullOnly(value) == value = Null

\* Line 21: the value for which formatNumber returns at once.
shortCircuits(value) == isBlank(value)

\* Line 23: strings that look like numbers become numbers.
coerce(value) ==
  IF isString(value) /\ isNumeric(value) THEN ToNumber(value) ELSE value

\* Lines 27-35 without the test of the style.
defaultBounds_anyStyle(style) ==
  [minInt |-> Num(1), minFraction |-> Num(0), maxFraction |-> Num(3)]

\* Lines 27-35: the bounds before the digit info is looked at.
defaultBounds(style) ==
  IF style # Currency
  THEN [minInt |-> Num(1), minFraction |-> Num(0), maxFraction |-> Num(3)]
  ELSE [minInt |-> Undefined, minFraction |-> Undefined,
        maxFraction |-> Undefined]

\* Lines 42-50 assigning every bound from its group, matched or not.
applyParts_resetting(bounds, parts) ==
  [minInt |->
     IF isPresent(parts[1]) THEN Num(parseIntAutoRadix(parts[1].s))
     ELSE Undefined,
   minFraction |->
     IF isPresent(parts[3]) THEN Num(parseIntAutoRadix(parts[3].s))
     ELSE Undefined,
   maxFraction |->
     IF isPresent(parts[5]) THEN Num(parseIntAutoRadix(parts[5].s))
     ELSE Undefined]

\* Lines 42-50: the groups that matched replace the bounds.
applyParts(bounds, parts) ==
  [minInt |->
     IF isPresent(parts[1]) THEN Num(parseIntAutoRadix(parts[1].s))
     ELSE bounds.minInt,
   minFraction |->
     IF isPresent(parts[3]) THEN Num(parseIntAutoRadix(parts[3].s))
     ELSE bounds.minFraction,
   maxFraction |->
     IF isPresent(parts[5]) THEN Num(parseIntAutoRadix(parts[5].s))
     ELSE bounds.maxFraction]

\* Lines 52-58: the call to the collaborator.
NumberFormatter_format(num, locale, style, bounds, currency, currencyAsSymbol) ==
  [num |-> num, locale |-> locale, style |-> style,
   opts |-> [minimumIntegerDigits |-> bounds.minInt,
             minimumFractionDigits |-> bounds.minFraction,
             maximumFractionDigits |-> bounds.maxFraction,
             currency |-> currency,
             currencyAsSymbol |-> currencyAsSymbol]]

\* Lines 27-58: formatNumber once the value is known to be a number.
formatNumeric(locale, num, style, digits, currency, currencyAsSymbol) ==
  LET parts == NUMBER_FORMAT_REGEXP_match(digits.s)
      bounds == IF isPresent(digits)
                THEN applyParts(defaultBounds(style), parts)
                ELSE defaultBounds(style)
      call == NumberFormatter_format(num, locale, style, bounds, currency,
                                     currencyAsSymbol)
  IN  IF isPresent(digits) /\ parts = Null
      THEN Throw(DigitInfoError(digits), <<>>)
      ELSE Return(Formatted(call), <<call>>)

\* An omitted argument takes the parameter's default.
Default(arg, default) == IF arg = Undefined THEN default ELSE arg

\* formatNumber with the digit info matched before the value is looked at.
formatNumber_digitsFirst(pipe, locale, value, style, digits, currencyArg, currencyAsSymbolArg) ==
  LET currency == Default(currencyArg, Null)
      currencyAsSymbol == Default(currencyAsSymbolArg, Bool(FALSE))
  IN  IF isPresent(digits) /\ NUMBER_FORMAT_REGEXP_match(digits.s) = Null
      THEN Throw(DigitInfoError(digits), <<>>)
      ELSE IF shortCircuits(value) THEN Return(Null, <<>>)
      ELSE IF ~isNumber(coerce(value))
      THEN Throw(InvalidPipeArgumentError(pipe, coerce(value)), <<>>)
      ELSE formatNumeric(locale, coerce(value), style, digits, currency,
                         currencyAsSymbol)

formatNumber(pipe, locale, value, style, digits, currencyArg, currencyAsSymbolArg) ==
  LET currency == Default(currencyArg, Null)
      currencyAsSymbol == Default(currencyAsSymbolArg, Bool(FALSE))
  IN  IF shortCircuits(value) THEN Return(Null, <<>>)
      ELSE IF ~isNumber(coerce(value))
      THEN Throw(InvalidPipeArgumentError(pipe, coerce(value)), <<>>)
      ELSE formatNumeric(locale, coerce(value), style, digits, currency,
                         currencyAsSymbol)

DecimalPipe_transform(locale, value, digitsArg) ==
  formatNumber("DecimalPipe", locale, value, Decimal, Default(digitsArg, Null),
               Undefined, Undefined)

\* PercentPipe.transform copied from DecimalPipe with the class left as it was.
PercentPipe_transform_asDecimal(locale, value, digitsArg) ==
  formatNumber("DecimalPipe", locale, value, Percent, Default(digitsArg, Null),
               Undefined, Undefined)

PercentPipe_transform(locale, value, digitsArg) ==
  formatNumber("PercentPipe", locale, value, Percent, Default(digitsArg, Null),
               Undefined, Undefined)

\* CurrencyPipe.transform without the defaults of its parameters.
CurrencyPipe_transform_noDefaults(locale, value, currencyCodeArg, symbolDisplayArg, digitsArg) ==
  formatNumber("CurrencyPipe", locale, value, Currency,
               Default(digitsArg, Null), currencyCodeArg, symbolDisplayArg)

CurrencyPipe_transform(locale, value, currencyCodeArg, symbolDisplayArg, digitsArg) ==
  formatNumber("CurrencyPipe", locale, value, Currency,
               Default(digitsArg, Null),
               Default(currencyCodeArg, Str(<<"U", "S", "D">>)),
               Default(symbolDisplayArg, Bool(FALSE)))

\* ------------------------------------------------------------ the calls

VARIABLES
  _locale,        \* the locale the pipe was constructed with
  value,          \* the value handed to transform
  digits,         \* the digit info handed to transform, Null when omitted
  pipe,           \* the pipe whose transform ran, "none" before the call
  currencyCode,   \* CurrencyPipe only: the currency code handed over
  symbolDisplay,  \* CurrencyPipe only: the symbol flag handed over
  outcome         \* how the call ended and what it asked of the collaborator

vars == <<_locale, value, digits, pipe, currencyCode, symbolDisplay, outcome>>

Pending == [kind |-> "pending", calls |-> <<>>]

Init ==
  /\ _locale \in Locales
  /\ value \in ValueArgs
  /\ digits \in DigitsArgs
  /\ pipe = "none"
  /\ currencyCode = Undefined
  /\ symbolDisplay = Undefined
  /\ outcome = Pending

DecimalTransform ==
  /\ pipe = "none"
  /\ pipe' = "DecimalPipe"
  /\ outcome' = DecimalPipe_transform(_locale, value, digits)
  /\ UNCHANGED <<_locale, value, digits, currencyCode, symbolDisplay>>

PercentTransform ==
  /\ pipe = "none"
  /\ pipe' = "PercentPipe"
  /\ outcome' = PercentPipe_transform(_locale, value, digits)
  /\ UNCHANGED <<_locale, value, digits, currencyCode, symbolDisplay>>

CurrencyTransform ==
  /\ pipe = "none"
  /\ pipe' = "CurrencyPipe"
  /\ \E code \in CurrencyCodeArgs, symbol \in SymbolDisplayArgs :
       /\ currencyCode' = code
       /\ symbolDisplay' = symbol
       /\ outcome' = CurrencyPipe_transform(_locale, value, code, symbol, digits)
  /\ UNCHANGED <<_locale, value, digits>>

Next == DecimalTransform \/ PercentTransform \/ CurrencyTransform

Spec == Init /\ [][Next]_vars

\* ------------------------------------------------------------ properties

\* The call has run.
Done == pipe # "none"

\* The values of ValueArgs that are numbers or numeric-looking text.
NumericLooking == {<<"4">>, <<"-", "4">>, <<"4", "2">>}
NumericValue == value.t = "number" \/ (value.t = "string" /\ value.s \in NumericLooking)
AbsentValue == value \in {Null, Undefined}

\* The bounds the collaborator was handed, when it was called.
Called == Len(outcome.calls) > 0
PassedMinInt == outcome.calls[1].opts.minimumIntegerDigits
PassedMinFraction == outcome.calls[1].opts.minimumFractionDigits
PassedMaxFraction == outcome.calls[1].opts.maximumFractionDigits

\* The bounds a style starts from, as the documentation of the pipes gives
\* them.
StyleMinInt == IF pipe = "CurrencyPipe" THEN Undefined ELSE Num(1)
StyleMinFraction == IF pipe = "CurrencyPipe" THEN Undefined ELSE Num(0)
StyleMaxFraction == IF pipe = "CurrencyPipe" THEN Undefined ELSE Num(3)

\* C1: a null or undefined value makes every pipe return null, without an
\* error and without a call to NumberFormatter.format.
AbsentValueReturnsNull ==
  (Done /\ AbsentValue) =>
    /\ outcome.kind = "return"
    /\ outcome.v = Null
    /\ outcome.calls = <<>>

WitnessAbsentValue ==
  /\ pipe = "PercentPipe"
  /\ value = Undefined
  /\ digits = Str(<<"1", ".">>)
  /\ outcome.kind = "return"

\* C2: a present value that is neither a number nor numeric-looking text makes
\* the pipe throw InvalidPipeArgumentError carrying the pipe that was invoked
\* and the raw value, without a call to NumberFormatter.format.
NonNumericValueThrows ==
  (Done /\ ~AbsentValue /\ ~NumericValue) =>
    /\ outcome.kind = "throw"
    /\ outcome.e = [name |-> "InvalidPipeArgumentError", type |-> pipe,
                    value |-> value]
    /\ outcome.calls = <<>>

WitnessNonNumericValue ==
  /\ pipe = "PercentPipe"
  /\ value = Str(<<"4", "a">>)
  /\ outcome.kind = "throw"
  /\ outcome.e.type = "PercentPipe"

\* C5: with no digit info, a numeric value reaches the collaborator with the
\* bounds 1, 0 and 3 from DecimalPipe and PercentPipe, and with the three
\* bounds undefined from CurrencyPipe.
DefaultBoundsPassed ==
  (Done /\ NumericValue /\ digits = Null) =>
    /\ outcome.kind = "return"
    /\ Called
    /\ pipe \in {"DecimalPipe", "PercentPipe"} =>
         /\ PassedMinInt = Num(1)
         /\ PassedMinFraction = Num(0)
         /\ PassedMaxFraction = Num(3)
    /\ pipe = "CurrencyPipe" =>
         /\ PassedMinInt = Undefined
         /\ PassedMinFraction = Undefined
         /\ PassedMaxFraction = Undefined

WitnessDefaultBounds ==
  /\ pipe = "CurrencyPipe"
  /\ value = Num(42)
  /\ digits = Null
  /\ Called
  /\ PassedMaxFraction = Undefined

\* C8: CurrencyPipe hands the collaborator the style Currency, the currency
\* "USD" when no currency code was given and currencyAsSymbol false when no
\* symbol flag was given.
CurrencyDefaultsPassed ==
  (Done /\ pipe = "CurrencyPipe" /\ Called) =>
    /\ outcome.calls[1].style = "Currency"
    /\ currencyCode = Undefined =>
         outcome.calls[1].opts.currency = Str(<<"U", "S", "D">>)
    /\ currencyCode # Undefined =>
         outcome.calls[1].opts.currency = currencyCode
    /\ symbolDisplay = Undefined =>
         outcome.calls[1].opts.currencyAsSymbol = Bool(FALSE)
    /\ symbolDisplay # Undefined =>
         outcome.calls[1].opts.currencyAsSymbol = symbolDisplay

WitnessCurrencyDefaults ==
  /\ pipe = "CurrencyPipe"
  /\ value = Str(<<"4", "2">>)
  /\ currencyCode = Undefined
  /\ symbolDisplay = Undefined
  /\ Called
  /\ outcome.calls[1].opts.currency = Str(<<"U", "S", "D">>)

\* The digit info read as text, split at its first dot and then at the first
\* dash behind it: the three fields as they are written.
HasDigits == digits # Null
DigitsText == digits.s
DecimalDigits == {"0", "1", "2", "3", "4", "5", "6", "7", "8", "9"}
AllDigits(s) == \A i \in 1..Len(s) : s[i] \in DecimalDigits
FirstIndex(s, c) ==
  IF \E i \in 1..Len(s) : s[i] = c
  THEN CHOOSE i \in 1..Len(s) : s[i] = c /\ \A j \in 1..(i - 1) : s[j] # c
  ELSE 0
DotAt == FirstIndex(DigitsText, ".")
HasDot == DotAt # 0
IntegerText == SubSeq(DigitsText, 1, DotAt - 1)
FractionText == SubSeq(DigitsText, DotAt + 1, Len(DigitsText))
DashAt == FirstIndex(FractionText, "-")
HasDash == DashAt # 0
MinFractionText ==
  IF HasDash THEN SubSeq(FractionText, 1, DashAt - 1) ELSE FractionText
MaxFractionText ==
  IF HasDash THEN SubSeq(FractionText, DashAt + 1, Len(FractionText))
  ELSE <<>>
FieldsAreDigits ==
  /\ HasDot
  /\ AllDigits(IntegerText)
  /\ AllDigits(MinFractionText)
  /\ AllDigits(MaxFractionText)

\* The base-10 value of a field.
RECURSIVE Base10(_)
Base10(text) ==
  IF text = <<>> THEN 0
  ELSE 10 * Base10(SubSeq(text, 1, Len(text) - 1))
         + (CHOOSE d \in 0..9 :
              <<"0", "1", "2", "3", "4", "5", "6", "7", "8", "9">>[d + 1]
                = text[Len(text)])

\* The forms [minInt].[minFrac[-maxFrac]]: a maximum comes with a minimum.
WellFormedDigits ==
  /\ FieldsAreDigits
  /\ HasDash => (MinFractionText # <<>> /\ MaxFractionText # <<>>)

\* A maximum without a minimum, as in ".-3" and "1.-3".
MaxWithoutMin ==
  /\ FieldsAreDigits
  /\ HasDash
  /\ MinFractionText = <<>>
  /\ MaxFractionText # <<>>

\* Not even the loosest reading of [minInt].[minFrac][-maxFrac]: text that is
\* not empty and has no dot, more than one dot, or a character that is no
\* digit where a field stands.
OutsideGrammar == DigitsText # <<>> /\ ~FieldsAreDigits

ThrowsDigitInfoError ==
  /\ outcome.kind = "throw"
  /\ outcome.e.name = "Error"
  /\ outcome.e.message
       = DigitsText \o <<" is not a valid digit info for number pipes">>
  /\ outcome.calls = <<>>

PassesStyleBounds ==
  /\ outcome.kind = "return"
  /\ Called
  /\ PassedMinInt = StyleMinInt
  /\ PassedMinFraction = StyleMinFraction
  /\ PassedMaxFraction = StyleMaxFraction

\* C3, as claimed: the empty digit info "" is accepted and passes the bounds
\* of a call without digit info.
EmptyDigitsMeanNoOverrides ==
  (Done /\ NumericValue /\ digits = Str(<<>>)) => PassesStyleBounds

\* C3, amended: the digit info "." is accepted and passes the bounds of a
\* call without digit info; the empty digit info "" is rejected with the
\* digit-info error.
DotMeansNoOverrides ==
  /\ (Done /\ NumericValue /\ digits = Str(<<".">>)) => PassesStyleBounds
  /\ (Done /\ NumericValue /\ digits = Str(<<>>)) => ThrowsDigitInfoError

WitnessDotMeansNoOverrides ==
  /\ pipe = "DecimalPipe"
  /\ value = Num(42)
  /\ digits = Str(<<".">>)
  /\ PassesStyleBounds

\* C4: for a numeric value, digit info outside the grammar (several dots, a
\* character that is no digit, no dot) makes the call throw the digit-info
\* error, which carries the digit info as written, without a call to
\* NumberFormatter.format.
OutsideGrammarThrows ==
  (Done /\ NumericValue /\ HasDigits /\ OutsideGrammar) => ThrowsDigitInfoError

WitnessOutsideGrammar ==
  /\ pipe = "DecimalPipe"
  /\ value = Num(42)
  /\ digits = Str(<<"1", ".", "0", ".", "1">>)
  /\ ThrowsDigitInfoError

\* C6: for accepted digit info each bound handed to the collaborator is the
\* parsed field where the field is written, and the default of the style
\* where it is not, whatever the other two fields are.
OverridesAreFieldWise ==
  (Done /\ NumericValue /\ HasDigits /\ outcome.kind = "return") =>
    /\ Called
    /\ PassedMinInt =
         IF IntegerText # <<>> THEN Num(parseIntAutoRadix(IntegerText))
         ELSE StyleMinInt
    /\ PassedMinFraction =
         IF MinFractionText # <<>> THEN Num(parseIntAutoRadix(MinFractionText))
         ELSE StyleMinFraction
    /\ PassedMaxFraction =
         IF MaxFractionText # <<>> THEN Num(parseIntAutoRadix(MaxFractionText))
         ELSE StyleMaxFraction

WitnessFieldWise ==
  /\ pipe = "DecimalPipe"
  /\ value = Num(42)
  /\ digits = Str(<<".", "1", "1">>)
  /\ Called
  /\ PassedMinInt = Num(1)
  /\ PassedMinFraction = Num(11)
  /\ PassedMaxFraction = Num(3)

\* C7, as claimed: digit info that gives a maximum of fraction digits without
\* a minimum is accepted and sets the fields that are written.
MaxWithoutMinAccepted ==
  (Done /\ NumericValue /\ HasDigits /\ MaxWithoutMin) =>
    /\ outcome.kind = "return"
    /\ Called
    /\ PassedMinFraction = StyleMinFraction
    /\ PassedMaxFraction = Num(parseIntAutoRadix(MaxFractionText))

\* C7, amended: the integer field and the fraction part are optional each on
\* its own, and the maximum is optional behind a minimum: the digit info of a
\* numeric value is accepted exactly when it reads
\* [minInt].[minFrac[-maxFrac]], a field that is not written then keeps the
\* default of the style, and a maximum without a minimum is rejected with the
\* digit-info error.
MaxNeedsMin ==
  (Done /\ NumericValue /\ HasDigits) =>
    /\ outcome.kind = "return" <=> WellFormedDigits
    /\ outcome.kind = "return" =>
         /\ IntegerText = <<>> => PassedMinInt = StyleMinInt
         /\ MinFractionText = <<>> => PassedMinFraction = StyleMinFraction
         /\ MaxFractionText = <<>> => PassedMaxFraction = StyleMaxFraction
    /\ MaxWithoutMin => ThrowsDigitInfoError

WitnessMaxNeedsMin ==
  /\ pipe = "CurrencyPipe"
  /\ value = Num(42)
  /\ digits = Str(<<"1", ".", "-", "1">>)
  /\ ThrowsDigitInfoError

\* C9: every bound set from accepted digit info is the base-10 value of the
\* field as written, a leading zero included ("010" is 10).
BoundsAreBase10 ==
  (Done /\ NumericValue /\ HasDigits /\ outcome.kind = "return") =>
    /\ IntegerText # <<>> => PassedMinInt = Num(Base10(IntegerText))
    /\ MinFractionText # <<>> =>
         PassedMinFraction = Num(Base10(MinFractionText))
    /\ MaxFractionText # <<>> =>
         PassedMaxFraction = Num(Base10(MaxFractionText))

\* C10: the value is looked at before the digit info: with digit info that
\* is not accepted, an absent value still returns null, a present value that
\* is not numeric still throws InvalidPipeArgumentError, and the digit-info
\* error is thrown for numeric values only.
ValueCheckedBeforeDigits ==
  (Done /\ HasDigits /\ ~WellFormedDigits) =>
    /\ AbsentValue => (outcome.kind = "return" /\ outcome.v = Null)
    /\ (~AbsentValue /\ ~NumericValue) =>
         (outcome.kind = "throw"
            /\ outcome.e.name = "InvalidPipeArgumentError")
    /\ (outcome.kind = "throw" /\ outcome.e.name = "Error") => NumericValue
    /\ NumericValue => ThrowsDigitInfoError

WitnessValueCheckedFirst ==
  /\ pipe = "DecimalPipe"
  /\ value = Str(<<"a">>)
  /\ digits = Str(<<"1", "-", "1">>)
  /\ outcome.kind = "throw"
  /\ outcome.e.name = "InvalidPipeArgumentError"

====
